---- MODULE Spec2Model ----
(***************************************************************************)
(* Model of the v2 dependency-injection container of simple-di: the        *)
(* Service descriptor (service.go), the Container (container.go) and the   *)
(* Scope (scope.go).                                                        *)
(*                                                                         *)
(* An instance is a record of the constructor call that made it: the       *)
(* descriptor, the number of that call among the calls of the descriptor's *)
(* constructor, the arguments, and the Scope and lifetime the call was     *)
(* made under.  Two calls never make the same instance.  Nil is Go's nil;  *)
(* a context is a record of the same shape with descriptor 0.              *)
(* A constructor with an error return either fails or succeeds at each     *)
(* invocation; the set bad of an operation names the descriptors whose     *)
(* constructor fails during that call.                                      *)
(***************************************************************************)
EXTENDS Integers, Sequences, FiniteSets, TLC

\* ---------------------------------------------------------------- bounds
MaxCalls == 3
MaxScopes == 2
MaxProcs == 2

\* ------------------------------------------------------------- constants
Inst(i, k, args, via, lt) == [svc |-> i, n |-> k, args |-> args, via |-> via, lt |-> lt]
Nil == Inst(0, 0, <<>>, 0, 0)

LifetimeSingleton == 0
LifetimeTransient == 1
LifetimeScoped == 2

Background == Inst(0, 1, <<>>, 0, 0)
Contexts == {Inst(0, k, <<>>, 0, 0) : k \in 1..2}

\* reflect.Type values of the constructors of the catalogue, as their String()
CtxString == "context.Context"
TA == "*di.A"
TB == "*di.B"
TC == "di.C"
TD == "*di.D"
TE == "*di.E"
TS == "*di.S"
TP == "*di.P"
TQ == "*di.Q"
Types == {TA, TB, TC, TD, TE, TS, TP, TQ, CtxString}

\* reflect.Type.Kind() == reflect.Ptr
IsPtr(t) == t \in {TA, TB, TD, TE, TS, TP, TQ}

\* reflect.Type.String(); the model's type tokens are their own String()
TypeString(t) == t

\* reflect.Type.Elem().String() of a pointer type
ElemString(t) ==
  CASE t = TA -> "di.A"
    [] t = TB -> "di.B"
    [] t = TD -> "di.D"
    [] t = TE -> "di.E"
    [] t = TS -> "di.S"
    [] t = TP -> "di.P"
    [] t = TQ -> "di.Q"
    [] OTHER -> t

\* reflect.Type.Name(): the name inside the package, empty for a pointer type
TypeName(t) ==
  CASE IsPtr(t) -> ""
    [] t = TC -> "C"
    [] t = CtxString -> "Context"
    [] OTHER -> t

\* constructors that AddService is given: parameter types, produced type,
\* and whether a second, error, return value is declared
mkA == [id |-> "mkA", in |-> <<>>, out |-> TA, err |-> TRUE]
mkB == [id |-> "mkB", in |-> <<TA>>, out |-> TB, err |-> FALSE]
mkC == [id |-> "mkC", in |-> <<TA, TB>>, out |-> TC, err |-> TRUE]

\* a second constructor of the type of mkA, without an error return
mkA2 == [id |-> "mkA2", in |-> <<>>, out |-> TA, err |-> FALSE]

\* values that NewService rejects: a string, and functions whose return
\* values have the wrong number or types
ErrorT == "error"
AnyT == "interface {}"
Rejected(id, kind, tname, outs) ==
  [id |-> id, kind |-> kind, tname |-> tname, in |-> <<>>, outs |-> outs,
   out |-> IF outs = <<>> THEN "" ELSE outs[1], err |-> FALSE]
notFunc == Rejected("notFunc", "string", "string", <<>>)
retNone == Rejected("retNone", "func", "", <<>>)
retError == Rejected("retError", "func", "", <<ErrorT>>)
retErrorFirst == Rejected("retErrorFirst", "func", "", <<ErrorT, AnyT>>)
retTwoValues == Rejected("retTwoValues", "func", "", <<AnyT, AnyT>>)
retThree == Rejected("retThree", "func", "", <<AnyT, AnyT, ErrorT>>)
InvalidCtors == {notFunc, retNone, retError, retErrorFirst, retTwoValues, retThree}

\* reflect.TypeOf(ctor): its Kind(), its Name() and its return types
Kind(ctor) == IF "kind" \in DOMAIN ctor THEN ctor.kind ELSE "func"
CtorTypeName(ctor) == IF "tname" \in DOMAIN ctor THEN ctor.tname ELSE ""
Outs(ctor) ==
  IF "outs" \in DOMAIN ctor THEN ctor.outs
  ELSE IF ctor.err THEN <<ctor.out, ErrorT>> ELSE <<ctor.out>>

\* a constructor that returns a context, one that declares a context
\* parameter, and one that takes the product of the latter
mkCtx == [id |-> "mkCtx", in |-> <<>>, out |-> CtxString, err |-> FALSE]
mkD == [id |-> "mkD", in |-> <<CtxString>>, out |-> TD, err |-> FALSE]
mkE == [id |-> "mkE", in |-> <<TD>>, out |-> TE, err |-> FALSE]
CtxCtors == {mkCtx, mkD, mkE}

\* a constructor that takes what it returns, and two constructors that take
\* what the other returns
mkS == [id |-> "mkS", in |-> <<TS>>, out |-> TS, err |-> FALSE]
mkP == [id |-> "mkP", in |-> <<TQ>>, out |-> TP, err |-> FALSE]
mkQ == [id |-> "mkQ", in |-> <<TP>>, out |-> TQ, err |-> FALSE]
CycleCtors == {mkA2, mkS, mkP, mkQ}

Catalogue == <<mkA, mkA2, mkB, mkC, mkCtx, mkD, mkE, mkS, mkP, mkQ>>
Ctors == {mkA, mkB, mkC}
Pos(ctor) == CHOOSE k \in 1..Len(Catalogue) : Catalogue[k] = ctor

\* what a failing constructor returns (assert.AnError in the tests)
AnError == "ctor error"

\* ------------------------------------------------------------------ state
VARIABLES
  services,   \* Container.services: the descriptors, in registration order
  scopes,     \* the Scopes created from the Container: ctx and services map
  calls,      \* per descriptor: the number of calls of its constructor
  resolved,   \* per descriptor: instances resolved as Singleton since Clean
  last,       \* the last call: operation, outcome, value, message, events
  procs,      \* the goroutines that call the Container concurrently
  ctn1        \* the first-generation Container (package src/di): srvs, srvConf

vars == <<services, scopes, calls, resolved, last, procs, ctn1>>

Procs == 1..MaxProcs

\* a goroutine that has made no call yet
Idle == [status |-> "idle", stack |-> <<>>, contended |-> FALSE, ok |-> TRUE,
         val |-> Nil, msg |-> <<>>]

Svc == 1..Len(services)

Range(q) == {q[k] : k \in 1..Len(q)}

\* the sum of a sequence of numbers
RECURSIVE Total(_)
Total(q) == IF q = <<>> THEN 0 ELSE Head(q) + Total(Tail(q))

NoCall == [op |-> "none", scope |-> 0, name |-> "", ok |-> TRUE, val |-> Nil,
           vals |-> <<>>, msg |-> <<>>, path |-> <<>>, ev |-> <<>>, ctx |-> Nil]

\* -------------------------------------------------------------- service.go
\* an event of a call: a constructor invocation ("ctor"), a return of build
\* ("build"), a hit in a Scope's map ("hit"), a disposer invocation ("dispose")
Event(e, i, v, lt, ctx) == [e |-> e, svc |-> i, inst |-> v, lifetime |-> lt, ctx |-> ctx]

\* isTypeError that takes no type for an error
isTypeError_Never(t) == FALSE

\* isTypeError: the type implements error
isTypeError(t) == t = ErrorT

\* the checks of NewService: the message of the panic, empty when the
\* constructor is accepted
Validate(ctor) ==
  LET n == CtorTypeName(ctor)
      o == Outs(ctor)
  IN IF Kind(ctor) # "func" THEN <<"service: %s is not a func", n>>
     ELSE IF Len(o) = 0 THEN <<"service: %s should return a value", n>>
     ELSE IF Len(o) = 1
     THEN IF isTypeError(o[1])
          THEN <<"service: %s should return a non-error value", n>>
          ELSE <<>>
     ELSE IF Len(o) = 2
     THEN IF isTypeError(o[1]) \/ ~isTypeError(o[2])
          THEN <<"service: %s should return (interface{}, error)", n>>
          ELSE <<>>
     ELSE <<"service: %s can not contain more than 2 return values", n>>

\* NewService, for a constructor that passed the checks
NewService(ctor) ==
  [name |-> IF IsPtr(ctor.out) THEN ElemString(ctor.out) ELSE TypeString(ctor.out),
   typ |-> ctor.out,
   lifetime |-> LifetimeTransient,
   ctor |-> ctor,
   impl |-> Nil,
   dipsose |-> FALSE]

\* Service.SetName: an empty name leaves the name as it is
SetNameOf(s, name) == IF name # "" THEN [s EXCEPT !.name = name] ELSE s

\* Dispose that leaves impl in place
Dispose_KeepImpl(s, i, ctx) ==
  [s |-> s,
   ev |-> IF s.dipsose THEN <<Event("dispose", i, s.impl, s.lifetime, ctx)>> ELSE <<>>]

\* Dispose that hands the disposer the background context
Dispose_Background(s, i, ctx) ==
  [s |-> [s EXCEPT !.impl = Nil],
   ev |-> IF s.dipsose THEN <<Event("dispose", i, s.impl, s.lifetime, Background)>> ELSE <<>>]

\* Service.Dispose: the disposer, when set, is called with ctx and impl; impl
\* is cleared.  The result is the descriptor and the disposer calls made.
Dispose(s, i, ctx) ==
  [s |-> [s EXCEPT !.impl = Nil],
   ev |-> IF s.dipsose THEN <<Event("dispose", i, s.impl, s.lifetime, ctx)>> ELSE <<>>]

\* the outcome of a resolution step: the threaded state st (descriptor caches,
\* call counts, events), the value, the error (empty: nil), the descriptors on the
\* failing path, and whether the call blocks on a build lock for ever
Ok(st, v) == [st |-> st, val |-> v, err |-> <<>>, path |-> <<>>, blocked |-> FALSE]
Fail(st, e, p) == [st |-> st, val |-> Nil, err |-> e, path |-> p, blocked |-> FALSE]
Blocked(st) == [st |-> st, val |-> Nil, err |-> <<>>, path |-> <<>>, blocked |-> TRUE]

Emit(st, e) == [st EXCEPT !.ev = Append(@, e)]

\* the element of a one-element set
Only(S) == CHOOSE x \in S : TRUE

\* a cache test of build that never finds the instance
IsBuilt_Never(s, impl) == FALSE

\* the cache test of build with the wrong lifetime
IsBuilt_WrongLifetime(s, impl) == impl # Nil /\ s.lifetime = LifetimeTransient

\* build: "s.impl != nil && s.lifetime == LifetimeSingleton"
IsBuilt(s, impl) == impl # Nil /\ s.lifetime = LifetimeSingleton

\* build that never stores the instance
Store_Never(s, impl, v) == impl

\* build that stores the instance whatever the lifetime
Store_Always(s, impl, v) == v

\* build: the value of s.impl after a successful constructor call
Store(s, impl, v) == IF s.lifetime = LifetimeSingleton THEN v ELSE impl

\* a failure handed on without the descriptor's name
Wrap_NoName(name, err) == err

\* fmt.Errorf("container: failed to build %s, %v", s.Name(), err)
Wrap(name, err) == <<"container: failed to build", name>> \o err

\* one map shared by all Scopes
Lookup_Shared(sc, t) == scopes[1].services[t]

\* Scope.services[typ], Nil when the key is absent
Lookup(sc, t) == scopes[sc].services[t]

RECURSIVE build(_, _, _, _, _)
RECURSIVE resolveArgs(_, _, _, _, _, _, _)

\* Container.getService: the first descriptor of the type, built with the
\* Container's resolver; failures are wrapped with the descriptor's name
getService(t, c, held, st) ==
  LET m == {i \in Svc : services[i].typ = t} IN
  IF m = {}
  THEN Fail(st, <<"container: failed to resolve", TypeName(t)>>, <<>>)
  ELSE LET i == CHOOSE x \in m : \A y \in m : x <= y IN
       Only({IF r.blocked \/ r.err = <<>>
             THEN r
             ELSE [r EXCEPT !.err = Wrap(services[i].name, @)] :
             r \in {build(i, 0, c, held, st)}})

\* Scope.getService without the test for the context type
scopeGetService_NoCtx(sc, t, c, held, st) ==
  IF Lookup(sc, t) # Nil
  THEN Ok(Emit(st, Event("hit", 0, Lookup(sc, t), LifetimeScoped, Nil)), Lookup(sc, t))
  ELSE getService(t, c, held, st)

\* Scope.getService that does not consult the Scope's map
scopeGetService_NoMap(sc, t, c, held, st) ==
  IF TypeString(t) = CtxString
  THEN Ok(st, scopes[sc].ctx)
  ELSE getService(t, c, held, st)

\* Scope.getService: the Scope's context, then the Scope's map, then the
\* Container
scopeGetService(sc, t, c, held, st) ==
  IF TypeString(t) = CtxString
  THEN Ok(st, scopes[sc].ctx)
  ELSE IF Lookup(sc, t) # Nil
  THEN Ok(Emit(st, Event("hit", 0, Lookup(sc, t), LifetimeScoped, Nil)), Lookup(sc, t))
  ELSE getService(t, c, held, st)

\* the resolver sp handed to build: sc = 0 is Container.getService
Sp(sc, t, c, held, st) ==
  IF sc = 0 THEN getService(t, c, held, st) ELSE scopeGetService(sc, t, c, held, st)

\* a loop of build that takes no notice of the error of a parameter
ArgFailed_Ignored(d) == d.blocked

\* "if err != nil { return nil, err }" after sp(arg)
ArgFailed(d) == d.blocked \/ d.err # <<>>

\* the loop of build over the constructor's parameters, from parameter k
resolveArgs(i, k, sc, c, held, st, args) ==
  IF k > Len(services[i].ctor.in)
  THEN [st |-> st, val |-> args, err |-> <<>>, path |-> <<>>, blocked |-> FALSE]
  ELSE Only({IF ArgFailed(d)
             THEN d
             ELSE resolveArgs(i, k + 1, sc, c, held, d.st, Append(args, d.val)) :
             d \in {Sp(sc, services[i].ctor.in[k], c, held, st)}})

\* an end of build that stores the instance before it looks at the error
call_StoreFirst(i, c, a) ==
  LET s == services[i]
      v == Inst(i, a.st.calls[i] + 1, a.val, c.via, s.lifetime)
  IN
  IF a.blocked
  THEN Blocked(a.st)
  ELSE IF a.err # <<>>
  THEN Fail(a.st, a.err, <<i>> \o a.path)
  ELSE IF s.ctor.err /\ i \in c.bad
  THEN Fail([a.st EXCEPT !.calls[i] = @ + 1,
                         !.impl[i] = Store(s, @, v),
                         !.ev = Append(@, Event("ctor", i, Nil, s.lifetime, Nil))],
            <<AnError>>, <<i>>)
  ELSE Ok([a.st EXCEPT !.calls[i] = @ + 1,
                       !.impl[i] = Store(s, @, v),
                       !.ev = @ \o <<Event("ctor", i, v, s.lifetime, Nil),
                                     Event("build", i, v, s.lifetime, Nil)>>],
          v)

\* the end of build, after the parameter loop with outcome a: the constructor
\* is called with the arguments a.val, and a Singleton's instance is stored
call(i, c, a) ==
  LET s == services[i] IN
  IF a.blocked
  THEN Blocked(a.st)
  ELSE IF a.err # <<>>
  THEN Fail(a.st, a.err, <<i>> \o a.path)
  ELSE IF s.ctor.err /\ i \in c.bad
  THEN Fail([a.st EXCEPT !.calls[i] = @ + 1,
                         !.ev = Append(@, Event("ctor", i, Nil, s.lifetime, Nil))],
            <<AnError>>, <<i>>)
  ELSE LET v == Inst(i, a.st.calls[i] + 1, a.val, c.via, s.lifetime) IN
       Ok([a.st EXCEPT !.calls[i] = @ + 1,
                       !.impl[i] = Store(s, @, v),
                       !.ev = @ \o <<Event("ctor", i, v, s.lifetime, Nil),
                                     Event("build", i, v, s.lifetime, Nil)>>],
          v)

\* Service.build with the resolver of scope sc (0: the Container's); held is
\* the set of descriptors whose mu the calling goroutine holds
build(i, sc, c, held, st) ==
  LET s == services[i] IN
  IF i \in held
  THEN Blocked(st)
  ELSE IF IsBuilt(s, st.impl[i])
  THEN Ok(Emit(st, Event("build", i, st.impl[i], s.lifetime, Nil)),
          st.impl[i])
  ELSE Only({call(i, c, a) : a \in {resolveArgs(i, 1, sc, c, held \cup {i}, st, <<>>)}})

\* the state a call starts from
Start == [impl |-> [i \in Svc |-> services[i].impl], calls |-> calls, ev |-> <<>>]

\* ------------------------------------------------------------ container.go
\* the name test of the lookup loop inverted
Named_Inverted(name) == {i \in Svc : services[i].name # name}

\* the descriptors that carry a name, and the first of them
Named(name) == {i \in Svc : services[i].name = name}
First(m) == CHOOSE x \in m : \A y \in m : x <= y

\* Container.GetService as a function of the state: outcome of the call
CtnGetService(name, c) ==
  IF Named(name) = {}
  THEN [ok |-> FALSE, val |-> Nil, msg |-> <<"container: could not find service", name>>,
        path |-> <<>>, st |-> Start, blocked |-> FALSE]
  ELSE LET i == First(Named(name)) IN
       Only({IF r.blocked
             THEN [ok |-> FALSE, val |-> Nil, msg |-> <<>>, path |-> <<>>, st |-> r.st,
                   blocked |-> TRUE]
             ELSE IF r.err # <<>>
             THEN [ok |-> FALSE, val |-> Nil,
                   msg |-> Wrap(services[i].name, r.err),
                   path |-> r.path, st |-> r.st, blocked |-> FALSE]
             ELSE [ok |-> TRUE, val |-> r.val, msg |-> <<>>, path |-> <<>>, st |-> r.st,
                   blocked |-> FALSE] :
             r \in {build(i, 0, c, {}, Start)}})

\* the instances that the events of a call resolved from Singleton descriptors
SingletonResolved(ev, i) ==
  {ev[k].inst : k \in {j \in 1..Len(ev) :
                        ev[j].e = "build" /\ ev[j].svc = i
                        /\ ev[j].lifetime = LifetimeSingleton}}

\* the effect of a finished resolution call on the state
Commit(op, sc, name, r) ==
  /\ ~r.blocked
  /\ Total(r.st.calls) <= MaxCalls
  /\ services' = [i \in Svc |-> [services[i] EXCEPT !.impl = r.st.impl[i]]]
  /\ calls' = r.st.calls
  /\ resolved' = [i \in Svc |-> resolved[i] \cup SingletonResolved(r.st.ev, i)]
  /\ last' = [op |-> op, scope |-> sc, name |-> name, ok |-> r.ok, val |-> r.val,
              vals |-> <<>>, msg |-> r.msg, path |-> r.path, ev |-> r.st.ev, ctx |-> Nil]
  /\ UNCHANGED <<procs, ctn1>>

Names == {NewService(c).name : c \in Ctors} \cup {"MyService"}

\* the constructors that fail in one call: a call ends at the first failure,
\* so at most one constructor with an error return fails in it
Bads == {{}} \cup {{i} : i \in {j \in Svc : services[j].ctor.err}}

GetService(name, bad) ==
  \E r \in {CtnGetService(name, [via |-> 0, bad |-> bad])} :
    /\ Commit("GetService", 0, name, r)
    /\ UNCHANGED scopes

\* GetServices that puts each instance in front of the ones found so far
Collect_Front(svcs, v) == <<v>> \o svcs

\* "svcs = append(svcs, v)"
Collect(svcs, v) == Append(svcs, v)

\* the loop of Container.GetServices from descriptor k on: every descriptor
\* of the type is built, in the order of the list; the first failure panics
RECURSIVE getServicesLoop(_, _, _, _, _)
getServicesLoop(k, t, c, st, svcs) ==
  IF k > Len(services)
  THEN [ok |-> TRUE, vals |-> svcs, msg |-> <<>>, path |-> <<>>, st |-> st,
        blocked |-> FALSE]
  ELSE IF services[k].typ # t
  THEN getServicesLoop(k + 1, t, c, st, svcs)
  ELSE Only({IF r.blocked
             THEN [ok |-> FALSE, vals |-> <<>>, msg |-> <<>>, path |-> <<>>,
                   st |-> r.st, blocked |-> TRUE]
             ELSE IF r.err # <<>>
             THEN [ok |-> FALSE, vals |-> <<>>,
                   msg |-> Wrap(services[k].name, r.err),
                   path |-> r.path, st |-> r.st, blocked |-> FALSE]
             ELSE getServicesLoop(k + 1, t, c, r.st, Collect(svcs, r.val)) :
             r \in {build(k, 0, c, {}, st)}})

\* Container.GetServices
GetServices(t, bad) ==
  \E r \in {getServicesLoop(1, t, [via |-> 0, bad |-> bad], Start, <<>>)} :
    /\ ~r.blocked
    /\ Total(r.st.calls) <= MaxCalls
    /\ services' = [i \in Svc |-> [services[i] EXCEPT !.impl = r.st.impl[i]]]
    /\ calls' = r.st.calls
    /\ resolved' = [i \in Svc |-> resolved[i] \cup SingletonResolved(r.st.ev, i)]
    /\ last' = [NoCall EXCEPT !.op = "GetServices", !.name = t, !.ok = r.ok,
                              !.vals = r.vals, !.msg = r.msg, !.path = r.path,
                              !.ev = r.st.ev]
    /\ UNCHANGED <<scopes, procs, ctn1>>

\* registration and configuration come first: nothing has been built and no
\* Scope has been created yet
Configuring == (\A i \in Svc : calls[i] = 0) /\ scopes = <<>>

\* each constructor of the catalogue is registered at most once, in the
\* order of the catalogue
\* a constructor that NewService rejects makes AddService panic before the
\* append
AddService(ctor) ==
  /\ Configuring
  /\ IF Validate(ctor) # <<>>
     THEN /\ last' = [NoCall EXCEPT !.op = "AddService", !.name = ctor.id,
                                    !.ok = FALSE, !.msg = Validate(ctor)]
          /\ UNCHANGED <<services, scopes, calls, resolved, procs, ctn1>>
     ELSE /\ ctor \in Range(Catalogue)
             => \A i \in Svc : Pos(services[i].ctor) < Pos(ctor)
          /\ services' = Append(services, NewService(ctor))
          /\ calls' = Append(calls, 0)
          /\ resolved' = Append(resolved, {})
          /\ last' = [NoCall EXCEPT !.op = "AddService", !.name = NewService(ctor).name]
          /\ UNCHANGED <<scopes, procs, ctn1>>

\* the loop of Container.Clean from descriptor k on
RECURSIVE cleanLoop(_, _, _)
cleanLoop(k, ctx, acc) ==
  IF k > Len(services)
  THEN acc
  ELSE Only({cleanLoop(k + 1, ctx, [s |-> Append(acc.s, d.s), ev |-> acc.ev \o d.ev]) :
             d \in {Dispose(services[k], k, ctx)}})

Clean(ctx) ==
  \E r \in {cleanLoop(1, ctx, [s |-> <<>>, ev |-> <<>>])} :
  /\ services' = r.s
  /\ resolved' = [i \in Svc |-> {}]
  /\ last' = [NoCall EXCEPT !.op = "Clean", !.ev = r.ev, !.ctx = ctx]
  /\ UNCHANGED <<scopes, calls, procs, ctn1>>

\* Container.getServiceInfo: the first descriptor of the name, 0 when the
\* call panics
getServiceInfo(name) == IF Named(name) = {} THEN 0 ELSE First(Named(name))

\* newScope
newScope(ctx) == [ctx |-> ctx, services |-> [t \in Types |-> Nil]]

\* a Scope that holds nothing yet is like any other such Scope, so a further
\* Scope is created once every Scope holds an instance
CreateScopeWithContext(ctx) ==
  /\ Len(scopes) < MaxScopes
  /\ \A k \in 1..Len(scopes) : scopes[k] # newScope(scopes[k].ctx)
  /\ scopes' = Append(scopes, newScope(ctx))
  /\ last' = [NoCall EXCEPT !.op = "CreateScope", !.scope = Len(scopes) + 1, !.ctx = ctx]
  /\ UNCHANGED <<services, calls, resolved, procs, ctn1>>

CreateScope == CreateScopeWithContext(Background)

\* ---------------------------------------------------------------- scope.go
\* Scope.GetService as a function of the state: outcome of the call and
\* whether the result is to be stored in the Scope's map
ScopeGetServiceOutcome(sc, name, c) ==
  LET i == getServiceInfo(name) IN
  IF i = 0
  THEN [ok |-> FALSE, val |-> Nil, msg |-> <<"container: could not find service", name>>,
        path |-> <<>>, st |-> Start, blocked |-> FALSE, store |-> FALSE]
  ELSE IF services[i].lifetime # LifetimeScoped
  THEN [store |-> FALSE] @@ CtnGetService(name, c)
  ELSE IF Lookup(sc, services[i].typ) # Nil
  THEN [ok |-> TRUE, val |-> Lookup(sc, services[i].typ), msg |-> <<>>,
        path |-> <<>>,
        st |-> Emit(Start, Event("hit", i, Lookup(sc, services[i].typ),
                                 LifetimeScoped, Nil)),
        blocked |-> FALSE, store |-> FALSE]
  ELSE Only({IF r.blocked
             THEN [ok |-> FALSE, val |-> Nil, msg |-> <<>>, path |-> <<>>, st |-> r.st,
                   blocked |-> TRUE, store |-> FALSE]
             ELSE IF r.err # <<>>
             THEN [ok |-> FALSE, val |-> Nil,
                   msg |-> Wrap(services[i].name, r.err),
                   path |-> r.path, st |-> r.st, blocked |-> FALSE, store |-> FALSE]
             ELSE [ok |-> TRUE, val |-> r.val, msg |-> <<>>, path |-> <<>>, st |-> r.st,
                   blocked |-> FALSE, store |-> TRUE] :
             r \in {build(i, sc, c, {}, Start)}})

\* Scope.GetService that stores whatever it returns in the Scope's map
ScopeGetService_StoreAll(sc, name, bad) ==
  \E r \in {ScopeGetServiceOutcome(sc, name, [via |-> sc, bad |-> bad])} :
    /\ Commit("Scope.GetService", sc, name, r)
    /\ scopes' = IF r.ok
                 THEN [scopes EXCEPT ![sc].services[services[getServiceInfo(name)].typ] = r.val]
                 ELSE scopes

ScopeGetService(sc, name, bad) ==
  \E r \in {ScopeGetServiceOutcome(sc, name, [via |-> sc, bad |-> bad])} :
    /\ Commit("Scope.GetService", sc, name, r)
    /\ scopes' = IF r.store
                 THEN [scopes EXCEPT ![sc].services[services[getServiceInfo(name)].typ] = r.val]
                 ELSE scopes

\* the fluent setters of a descriptor that AddService returned
Configure(i, s) ==
  /\ Configuring
  /\ services' = [services EXCEPT ![i] = s]
  /\ last' = [NoCall EXCEPT !.op = "Configure", !.name = s.name]
  /\ UNCHANGED <<scopes, calls, resolved, procs, ctn1>>

\* a lifetime setter that also drops the cached instance
WithLifetime_Reset(s, lt) == [s EXCEPT !.lifetime = lt, !.impl = Nil]

\* "s.lifetime = ..." of AsSingleton, AsTransient and AsScoped
WithLifetime(s, lt) == [s EXCEPT !.lifetime = lt]

AsSingleton(i) == Configure(i, WithLifetime(services[i], LifetimeSingleton))
AsTransient(i) == Configure(i, WithLifetime(services[i], LifetimeTransient))
AsScoped(i) == Configure(i, WithLifetime(services[i], LifetimeScoped))

\* AsSingleton, AsTransient or AsScoped called on a descriptor after the
\* first resolution; a call that sets the lifetime the descriptor has
\* already changes nothing and is left out
SetLifetime(i, lt) ==
  /\ ~Configuring
  /\ services[i].lifetime # lt
  /\ services' = [services EXCEPT ![i] = WithLifetime(@, lt)]
  /\ last' = [NoCall EXCEPT !.op = "SetLifetime", !.name = services[i].name]
  /\ UNCHANGED <<scopes, calls, resolved, procs, ctn1>>
SetDispose(i, f) == Configure(i, [services[i] EXCEPT !.dipsose = f])
SetName(i, name) == Configure(i, SetNameOf(services[i], name))

\* -------------------------------------------------------------- goroutines
\* A goroutine makes one call.  Its stack holds the frames of the call: the
\* Container operation, and below it the nested build and getService calls.
\* A frame waits for a lock (pc "rlock", "lock", "pending") or holds it
\* ("held", "run"); the locks are what the frames hold.
Frame(kind, pc, x, i) ==
  [kind |-> kind, pc |-> pc, x |-> x, svc |-> i, k |-> 1, args |-> <<>>]

Top(g) == procs[g].stack[Len(procs[g].stack)]
Rest(g) == SubSeq(procs[g].stack, 1, Len(procs[g].stack) - 1)
Running(g) == procs[g].status = "run"
AllIdle == \A g \in Procs : procs[g].status = "idle"

\* ctn.mu (sync.RWMutex): a read lock is held by each GetService, getService
\* and GetServices frame past RLock; a Lock call that waits for the readers
\* to leave keeps later RLock calls waiting
ReadersHeld ==
  \E g \in Procs : \E n \in 1..Len(procs[g].stack) :
    /\ procs[g].stack[n].kind \in {"GetService", "getService", "GetServices"}
    /\ procs[g].stack[n].pc = "held"
WriterPending ==
  \E g \in Procs : Running(g) /\ procs[g].stack[1].pc = "pending"

\* a build lock that is never seen held
MuHeld_Never(i) == FALSE

\* Service.mu: held by the build frame of the descriptor that is past Lock
MuHeld(i) ==
  \E g \in Procs : \E n \in 1..Len(procs[g].stack) :
    /\ procs[g].stack[n].kind = "build"
    /\ procs[g].stack[n].svc = i
    /\ procs[g].stack[n].pc = "run"

\* a mutex that the goroutine holding it can lock again
MuFree_Reentrant(g, i) ==
  ~\E h \in Procs \ {g} : \E n \in 1..Len(procs[h].stack) :
     /\ procs[h].stack[n].kind = "build"
     /\ procs[h].stack[n].svc = i
     /\ procs[h].stack[n].pc = "run"

\* s.mu.Lock() returns only when no goroutine holds the mutex, the caller
\* included: sync.Mutex is not reentrant
MuFree(g, i) == ~MuHeld(i)

\* the descriptors that produce a type
Typed(t) == {i \in Svc : services[i].typ = t}

\* the return of value r = [val, err] into the frames of a stack: getService,
\* GetService and GetServices wrap a failure with the name of the descriptor
\* they built and release the read lock; build hands a failure on and
\* releases its lock, or takes the value as the next argument; GetServices
\* appends the value and goes on with the next descriptor of the type
RECURSIVE Unwind(_, _)
Unwind(stack, r) ==
  IF stack = <<>>
  THEN [stack |-> <<>>, r |-> r]
  ELSE LET f == stack[Len(stack)]
           rest == SubSeq(stack, 1, Len(stack) - 1)
       IN IF f.kind = "build"
          THEN IF r.err # <<>>
               THEN Unwind(rest, r)
               ELSE [stack |-> Append(rest, [f EXCEPT !.k = @ + 1,
                                                      !.args = Append(@, r.val)]),
                     r |-> r]
          ELSE IF /\ f.kind = "GetServices" /\ r.err = <<>>
                  /\ \E j \in Typed(f.x) : j > f.svc
          THEN LET j == First({n \in Typed(f.x) : n > f.svc}) IN
               [stack |-> rest \o <<[f EXCEPT !.svc = j, !.args = Append(@, r.val)],
                                     Frame("build", "lock", 0, j)>>,
                r |-> r]
          ELSE Unwind(rest, IF r.err # <<>> /\ f.svc # 0
                            THEN [r EXCEPT !.err = Wrap(services[f.svc].name, @)]
                            ELSE r)

\* the loop of build: the next parameter is resolved by the resolver of the
\* build frame, f.x: the Container's getService (0), or the getService of a
\* Scope, which answers with its context or its map's entry and calls the
\* Container's getService for the rest
RECURSIVE PushArg(_)
PushArg(stack) ==
  LET f == stack[Len(stack)]
      rest == SubSeq(stack, 1, Len(stack) - 1)
  IN
  IF f.kind = "build" /\ f.pc = "run" /\ f.k <= Len(services[f.svc].ctor.in)
  THEN LET t == services[f.svc].ctor.in[f.k] IN
       IF f.x # 0 /\ TypeString(t) = CtxString
       THEN PushArg(Append(rest, [f EXCEPT !.k = @ + 1,
                                           !.args = Append(@, scopes[f.x].ctx)]))
       ELSE IF f.x # 0 /\ Lookup(f.x, t) # Nil
       THEN PushArg(Append(rest, [f EXCEPT !.k = @ + 1,
                                           !.args = Append(@, Lookup(f.x, t))]))
       ELSE Append(stack, Frame("getService", "rlock", t, 0))
  ELSE stack

\* the Scope whose GetService a goroutine is in, 0 when it is in none
ScopeOf(g) ==
  IF procs[g].stack # <<>> /\ procs[g].stack[1].kind = "Scope.GetService"
  THEN procs[g].stack[1].x[1]
  ELSE 0

\* a Scope lock that is never seen held
ScopeMuHeld_Never(sc) == FALSE

\* Scope.mu: held by the Scope.GetService frame of the Scope that is past Lock
ScopeMuHeld(sc) ==
  \E g \in Procs : ScopeOf(g) = sc /\ procs[g].stack[1].pc # "lock"

\* "s.services[svc.typ] = impl": the Scopes after the return u in goroutine
\* g, which ends Scope.GetService when it empties the stack
Stored(g, u) ==
  IF /\ u.stack = <<>> /\ u.r.err = <<>>
     /\ ScopeOf(g) # 0
     /\ procs[g].stack[1].pc = "build"
  THEN [scopes EXCEPT ![ScopeOf(g)].services[services[procs[g].stack[1].svc].typ] = u.r.val]
  ELSE scopes

\* a return that leaves the frames of a failed call, and with them the
\* locks they hold, in place
After_NoDefer(g, u) ==
  IF u.stack = <<>>
  THEN [procs[g] EXCEPT !.status = "done",
                        !.stack = IF u.r.err # <<>> THEN @ ELSE <<>>,
                        !.ok = (u.r.err = <<>>),
                        !.val = u.r.val, !.msg = u.r.err]
  ELSE [procs[g] EXCEPT !.stack = PushArg(u.stack)]

\* the goroutine after a return: at the end of its call, or on in build
After(g, u) ==
  IF u.stack = <<>>
  THEN [procs[g] EXCEPT !.status = "done", !.stack = <<>>, !.ok = (u.r.err = <<>>),
                        !.val = u.r.val, !.msg = u.r.err]
  ELSE [procs[g] EXCEPT !.stack = PushArg(u.stack)]

\* a goroutine calls Container.GetService, Clean or AddService
Go(g, f) ==
  /\ procs[g].status = "idle"
  /\ procs' = [procs EXCEPT ![g] = [Idle EXCEPT !.status = "run", !.stack = <<f>>]]
  /\ UNCHANGED <<services, scopes, calls, resolved, last, ctn1>>

GoGetService(g, name) == Go(g, Frame("GetService", "rlock", name, 0))
GoClean(g) == Go(g, Frame("Clean", "lock", Background, 0))
GoAddService(g, ctor) ==
  /\ ctor \in Range(Catalogue) => \A i \in Svc : Pos(services[i].ctor) < Pos(ctor)
  /\ Go(g, Frame("AddService", "lock", ctor, 0))
GoGetServices(g, t) == Go(g, Frame("GetServices", "rlock", t, 0))

\* ctn.mu.RLock() of GetService, getService and GetServices, and the scan
\* of the list up to the first match; GetServices returns an empty slice
\* when there is none
RLock(g) ==
  /\ Running(g)
  /\ Top(g).kind \in {"GetService", "getService", "GetServices"}
  /\ Top(g).pc = "rlock"
  /\ ~WriterPending
  /\ LET f == Top(g)
         m == IF f.kind = "GetService" THEN Named(f.x) ELSE Typed(f.x)
     IN IF m = {}
        THEN procs' = [procs EXCEPT ![g] =
               After(g, Unwind(Rest(g),
                 [val |-> Nil,
                  err |-> IF f.kind = "GetService"
                          THEN <<"container: could not find service", f.x>>
                          ELSE IF f.kind = "GetServices" THEN <<>>
                          ELSE <<"container: failed to resolve", TypeName(f.x)>>]))]
        ELSE procs' = [procs EXCEPT ![g] =
               [@ EXCEPT !.stack = Rest(g) \o <<[f EXCEPT !.pc = "held", !.svc = First(m)],
                                                Frame("build", "lock", 0, First(m))>>,
                         !.contended = @ \/ MuHeld(First(m))]]
  /\ UNCHANGED <<services, scopes, calls, resolved, last, ctn1>>

\* s.mu.Lock() of build and the cache test
MuLock(g) ==
  /\ Running(g)
  /\ Top(g).kind = "build" /\ Top(g).pc = "lock"
  /\ MuFree(g, Top(g).svc)
  /\ LET i == Top(g).svc IN
     IF IsBuilt(services[i], services[i].impl)
     THEN /\ procs' = [procs EXCEPT ![g] =
                 After(g, Unwind(Rest(g), [val |-> services[i].impl, err |-> <<>>]))]
          /\ scopes' = Stored(g, Unwind(Rest(g), [val |-> services[i].impl, err |-> <<>>]))
          /\ resolved' = [resolved EXCEPT ![i] = @ \cup {services[i].impl}]
     ELSE /\ procs' = [procs EXCEPT ![g] =
                 [@ EXCEPT !.stack = PushArg(Append(Rest(g), [Top(g) EXCEPT !.pc = "run"]))]]
          /\ UNCHANGED <<scopes, resolved>>
  /\ UNCHANGED <<services, calls, last, ctn1>>

\* f.Call(args) of build, the store of a Singleton and the return
Ctor(g, fail) ==
  /\ Running(g)
  /\ Top(g).kind = "build" /\ Top(g).pc = "run"
  /\ fail => services[Top(g).svc].ctor.err
  /\ LET i == Top(g).svc
         v == Inst(i, calls[i] + 1, Top(g).args, ScopeOf(g), services[i].lifetime)
     IN /\ calls' = [calls EXCEPT ![i] = @ + 1]
        /\ IF fail
           THEN /\ procs' = [procs EXCEPT ![g] =
                       After(g, Unwind(Rest(g), [val |-> Nil, err |-> <<AnError>>]))]
                /\ UNCHANGED <<services, scopes, resolved>>
           ELSE /\ procs' = [procs EXCEPT ![g] =
                       After(g, Unwind(Rest(g), [val |-> v, err |-> <<>>]))]
                /\ scopes' = Stored(g, Unwind(Rest(g), [val |-> v, err |-> <<>>]))
                /\ services' = [services EXCEPT ![i].impl = Store(services[i], @, v)]
                /\ resolved' = [resolved EXCEPT ![i] =
                       IF services[i].lifetime = LifetimeSingleton THEN @ \cup {v} ELSE @]
  /\ UNCHANGED <<last, ctn1>>

\* a goroutine calls Scope.GetService; it has to wait when another call
\* holds the Scope's lock
GoScopeGetService(g, sc, name) ==
  /\ procs[g].status = "idle"
  /\ procs' = [procs EXCEPT ![g] =
        [Idle EXCEPT !.status = "run",
                     !.stack = <<Frame("Scope.GetService", "lock", <<sc, name>>, 0)>>,
                     !.contended = ScopeMuHeld(sc)]]
  /\ UNCHANGED <<services, scopes, calls, resolved, last, ctn1>>

\* s.mu.Lock() of Scope.GetService
ScopeLock(g) ==
  /\ Running(g)
  /\ Top(g).kind = "Scope.GetService" /\ Top(g).pc = "lock"
  /\ ~ScopeMuHeld(Top(g).x[1])
  /\ procs' = [procs EXCEPT ![g].stack = <<[Top(g) EXCEPT !.pc = "info"]>>]
  /\ UNCHANGED <<services, scopes, calls, resolved, last, ctn1>>

\* Scope.GetService under the lock: getServiceInfo under the Container's read
\* lock, then the call of Container.GetService for a descriptor that is not
\* Scoped, the return of the map's entry, or the call of build with the
\* Scope's resolver
ScopeInfo(g) ==
  /\ Running(g)
  /\ Top(g).kind = "Scope.GetService" /\ Top(g).pc = "info"
  /\ ~WriterPending
  /\ LET f == Top(g)
         sc == f.x[1]
         name == f.x[2]
         i == getServiceInfo(name)
     IN procs' = [procs EXCEPT ![g] =
          IF i = 0
          THEN After(g, [stack |-> <<>>,
                         r |-> [val |-> Nil,
                                err |-> <<"container: could not find service", name>>]])
          ELSE IF services[i].lifetime # LifetimeScoped
          THEN [@ EXCEPT !.stack = <<[f EXCEPT !.pc = "call"],
                                     Frame("GetService", "rlock", name, 0)>>]
          ELSE IF Lookup(sc, services[i].typ) # Nil
          THEN After(g, [stack |-> <<>>,
                         r |-> [val |-> Lookup(sc, services[i].typ), err |-> <<>>]])
          ELSE [@ EXCEPT !.stack = <<[f EXCEPT !.pc = "build", !.svc = i],
                                     Frame("build", "lock", sc, i)>>,
                         !.contended = @ \/ MuHeld(i)]]
  /\ UNCHANGED <<services, scopes, calls, resolved, last, ctn1>>

\* ctn.mu.Lock() of Clean and AddService: the call announces itself, which
\* stops later readers, and waits for the readers to leave
Announce(g) ==
  /\ Running(g)
  /\ Top(g).pc = "lock" /\ Top(g).kind \in {"Clean", "AddService"}
  /\ ~WriterPending
  /\ procs' = [procs EXCEPT ![g].stack = <<[Top(g) EXCEPT !.pc = "pending"]>>]
  /\ UNCHANGED <<services, scopes, calls, resolved, last, ctn1>>

\* the body of Clean or AddService under the lock, and the Unlock; NewService
\* panics, under the lock, on a constructor it rejects
Acquire(g) ==
  /\ Running(g)
  /\ Top(g).pc = "pending"
  /\ ~ReadersHeld
  /\ IF Top(g).kind = "Clean"
     THEN /\ procs' = [procs EXCEPT ![g] = [@ EXCEPT !.status = "done", !.stack = <<>>]]
          /\ services' = cleanLoop(1, Top(g).x, [s |-> <<>>, ev |-> <<>>]).s
          /\ resolved' = [i \in Svc |-> {}]
          /\ UNCHANGED calls
     ELSE IF Validate(Top(g).x) # <<>>
     THEN /\ procs' = [procs EXCEPT ![g] =
                 After(g, [stack |-> <<>>,
                           r |-> [val |-> Nil, err |-> Validate(Top(g).x)]])]
          /\ UNCHANGED <<services, calls, resolved>>
     ELSE /\ procs' = [procs EXCEPT ![g] = [@ EXCEPT !.status = "done", !.stack = <<>>]]
          /\ services' = Append(services, NewService(Top(g).x))
          /\ calls' = Append(calls, 0)
          /\ resolved' = Append(resolved, {})
  /\ UNCHANGED <<scopes, last, ctn1>>

\* ------------------------------------------- first-generation Container
\* The Container of src/di keeps a BuildFunc per name and guards its maps
\* with one sync.Mutex.  A BuildFunc is given by the names it resolves with
\* ctn.GetService, in order, before it returns its value.
V1Names == <<"dep", "svc">>
V1Index(name) == CHOOSE k \in 1..Len(V1Names) : V1Names[k] = name
buildLeaf == <<>>
buildWithDep == <<"dep">>
BuildFuncs == {buildLeaf, buildWithDep}

\* a name without an entry in srvConf
NoConf == [Singleton |-> FALSE, Build |-> <<>>, Dispose |-> FALSE, ok |-> FALSE]

\* NewContainer of src/di
NewContainer1 ==
  [srvs |-> [n \in Range(V1Names) |-> Nil],
   srvConf |-> [n \in Range(V1Names) |-> NoConf],
   calls |-> [n \in Range(V1Names) |-> 0],
   disposed |-> {}]

\* ctn.mu of the first-generation Container: held by the GetService frame
\* that is past Lock
V1MuHeld ==
  \E g \in Procs : \E n \in 1..Len(procs[g].stack) :
    procs[g].stack[n].kind = "v1.GetService" /\ procs[g].stack[n].pc = "build"

\* addService under the lock: the entry of the name is replaced
V1AddService(name, singleton, builder) ==
  /\ AllIdle
  /\ \A n \in Range(V1Names) : ctn1.calls[n] = 0
  /\ ctn1' = [ctn1 EXCEPT !.srvConf[name] =
                [Singleton |-> singleton, Build |-> builder, Dispose |-> FALSE,
                 ok |-> TRUE]]
  /\ UNCHANGED <<services, scopes, calls, resolved, last, procs>>

\* ServiceBuilder.Dispose on the entry that addService returned
V1Dispose(name) ==
  /\ AllIdle
  /\ \A n \in Range(V1Names) : ctn1.calls[n] = 0
  /\ ctn1.srvConf[name].ok /\ ~ctn1.srvConf[name].Dispose
  /\ ctn1' = [ctn1 EXCEPT !.srvConf[name].Dispose = TRUE]
  /\ UNCHANGED <<services, scopes, calls, resolved, last, procs>>

\* Clean, from Lock to Unlock: every held instance is handed to its
\* DisposeFunc, when there is one, and deleted
V1Clean ==
  /\ ~V1MuHeld
  /\ \E n \in Range(V1Names) : ctn1.srvs[n] # Nil
  /\ ctn1' = [ctn1 EXCEPT
        !.srvs = [n \in Range(V1Names) |-> Nil],
        !.disposed = {ctn1.srvs[n] : n \in {m \in Range(V1Names) :
                         ctn1.srvs[m] # Nil /\ ctn1.srvConf[m].Dispose}}]
  /\ UNCHANGED <<services, scopes, calls, resolved, last, procs>>

\* a goroutine calls GetService of the first-generation Container
V1Go(g, name) == Go(g, Frame("v1.GetService", "lock", name, 0))

\* the BuildFunc of the top frame goes on: it calls ctn.GetService for the
\* next name it resolves
V1Call(stack) ==
  LET f == stack[Len(stack)] IN
  IF /\ f.kind = "v1.GetService" /\ f.pc = "build"
     /\ f.k <= Len(ctn1.srvConf[f.x].Build)
  THEN Append(stack, Frame("v1.GetService", "lock", ctn1.srvConf[f.x].Build[f.k], 0))
  ELSE stack

\* the return of value v from the top frame: to the caller of the outermost
\* GetService, or into the BuildFunc that called
V1Return(g, v) ==
  IF Len(procs[g].stack) = 1
  THEN [procs[g] EXCEPT !.status = "done", !.stack = <<>>, !.val = v]
  ELSE LET rest == Rest(g)
           f == rest[Len(rest)]
       IN [procs[g] EXCEPT !.stack =
             V1Call(Append(SubSeq(rest, 1, Len(rest) - 1),
                           [f EXCEPT !.k = @ + 1, !.args = Append(@, v)]))]

\* ctn.mu.Lock() of GetService and what follows up to the call of the
\* BuildFunc: the panic for an unknown name, which unwinds every frame, or
\* the return of a held Singleton
V1Lock(g) ==
  /\ Running(g)
  /\ Top(g).kind = "v1.GetService" /\ Top(g).pc = "lock"
  /\ ~V1MuHeld
  /\ LET name == Top(g).x
         conf == ctn1.srvConf[name]
     IN procs' = [procs EXCEPT ![g] =
          IF ~conf.ok
          THEN [@ EXCEPT !.status = "done", !.stack = <<>>, !.ok = FALSE,
                         !.msg = <<"unable to resolve service: ", name>>]
          ELSE IF conf.Singleton /\ ctn1.srvs[name] # Nil
          THEN V1Return(g, ctn1.srvs[name])
          ELSE [@ EXCEPT !.stack = V1Call(Append(Rest(g), [Top(g) EXCEPT !.pc = "build"]))]]
  /\ UNCHANGED <<services, scopes, calls, resolved, last, ctn1>>

\* the BuildFunc returns its value, GetService stores the value of a
\* Singleton and returns it
V1Build(g) ==
  /\ Running(g)
  /\ Top(g).kind = "v1.GetService" /\ Top(g).pc = "build"
  /\ Top(g).k > Len(ctn1.srvConf[Top(g).x].Build)
  /\ Total([k \in 1..Len(V1Names) |-> ctn1.calls[V1Names[k]]]) < MaxCalls
  /\ LET name == Top(g).x
         conf == ctn1.srvConf[name]
         impl == Inst(V1Index(name), ctn1.calls[name] + 1, Top(g).args, 0,
                      IF conf.Singleton THEN LifetimeSingleton ELSE LifetimeTransient)
     IN /\ ctn1' = [ctn1 EXCEPT !.calls[name] = @ + 1,
                                !.srvs[name] = IF conf.Singleton THEN impl ELSE @]
        /\ procs' = [procs EXCEPT ![g] = V1Return(g, impl)]
  /\ UNCHANGED <<services, scopes, calls, resolved, last>>

NextV1 ==
  \/ \E name \in Range(V1Names) : \E singleton \in BOOLEAN : \E builder \in BuildFuncs :
       V1AddService(name, singleton, builder)
  \/ \E name \in Range(V1Names) : V1Dispose(name)
  \/ V1Clean
  \/ \E g \in Procs : \E name \in Range(V1Names) : V1Go(g, name)
  \/ \E g \in Procs : V1Lock(g)
  \/ \E g \in Procs : V1Build(g)

Init ==
  /\ ctn1 = NewContainer1
  /\ services = <<>>
  /\ scopes = <<>>
  /\ calls = <<>>
  /\ resolved = <<>>
  /\ last = NoCall
  /\ procs = [g \in Procs |-> Idle]

\* the Container and its Scopes; no disposer is registered
Next ==
  \/ \E ctor \in Ctors \cup InvalidCtors : AddService(ctor)
  \/ \E i \in Svc : AsSingleton(i)
  \/ \E i \in Svc : AsTransient(i)
  \/ \E i \in Svc : AsScoped(i)
  \/ \E name \in Names : \E bad \in Bads : GetService(name, bad)
  \/ Clean(Background)
  \/ CreateScope
  \/ \E sc \in 1..Len(scopes) : \E name \in Names : \E bad \in Bads :
       ScopeGetService(sc, name, bad)

Spec == Init /\ [][Next]_vars

\* the Container with disposers; no Scope is created
NextDispose ==
  \/ \E ctor \in Ctors : AddService(ctor)
  \/ \E i \in Svc : AsSingleton(i)
  \/ \E i \in Svc : AsTransient(i)
  \/ \E i \in Svc : AsScoped(i)
  \/ \E i \in Svc : \E f \in BOOLEAN : SetDispose(i, f)
  \/ \E name \in Names : \E bad \in Bads : GetService(name, bad)
  \/ \E ctx \in Contexts : Clean(ctx)

SpecDispose == Init /\ [][NextDispose]_vars

\* the Container with two constructors of one type and lookups by type; no
\* Scope is created and Clean is not called
NextMulti ==
  \/ \E ctor \in {mkA, mkA2, mkB} : AddService(ctor)
  \/ \E i \in Svc : AsSingleton(i)
  \/ \E i \in Svc : AsTransient(i)
  \/ \E i \in Svc : AsScoped(i)
  \/ \E name \in Names : \E bad \in Bads : GetService(name, bad)
  \/ \E t \in {TA, TB, TC} : \E bad \in Bads : GetServices(t, bad)

SpecMulti == Init /\ [][NextMulti]_vars

\* the Container and its Scopes with constructors that take or return a
\* context; each Scope is bound to one of two contexts
CtxNames == {NewService(c).name : c \in CtxCtors}

NextCtx ==
  \/ \E ctor \in CtxCtors : AddService(ctor)
  \/ \E i \in Svc : AsSingleton(i)
  \/ \E i \in Svc : AsTransient(i)
  \/ \E i \in Svc : AsScoped(i)
  \/ \E name \in CtxNames : GetService(name, {})
  \/ \E ctx \in Contexts : CreateScopeWithContext(ctx)
  \/ \E sc \in 1..Len(scopes) : \E name \in CtxNames : ScopeGetService(sc, name, {})

SpecCtx == Init /\ [][NextCtx]_vars

\* the Container and its Scopes with two constructors of one type and
\* descriptors that are given a name with SetName; no constructor fails
NameCtors == {mkA, mkA2, mkB}
GivenNames == {"", "MyService"}

NextNames ==
  \/ \E ctor \in NameCtors : AddService(ctor)
  \/ \E i \in Svc : \E name \in GivenNames : SetName(i, name)
  \/ \E i \in Svc : AsSingleton(i)
  \/ \E i \in Svc : AsTransient(i)
  \/ \E i \in Svc : AsScoped(i)
  \/ \E name \in Names : GetService(name, {})
  \/ CreateScope
  \/ \E sc \in 1..Len(scopes) : \E name \in Names : ScopeGetService(sc, name, {})

SpecNames == Init /\ [][NextNames]_vars

\* the Container and one kind of Scope where the lifetime of a descriptor
\* is changed between resolutions
LifeCtors == {mkA, mkB}
LifeNames == {NewService(c).name : c \in LifeCtors}

NextLife ==
  \/ \E ctor \in LifeCtors : AddService(ctor)
  \/ \E i \in Svc : AsSingleton(i)
  \/ \E i \in Svc :
       \E lt \in {LifetimeSingleton, LifetimeTransient, LifetimeScoped} : SetLifetime(i, lt)
  \/ \E name \in LifeNames : \E bad \in Bads : GetService(name, bad)
  \/ CreateScope
  \/ \E sc \in 1..Len(scopes) : \E name \in LifeNames : ScopeGetService(sc, name, {})

SpecLife == Init /\ [][NextLife]_vars

\* goroutines that call the Container concurrently; the descriptors are
\* configured before the first goroutine starts
ConcCtors == {mkA, mkB}
ConcNames == {NewService(c).name : c \in ConcCtors}

NextConc ==
  \/ \E ctor \in ConcCtors : AllIdle /\ AddService(ctor)
  \/ \E i \in Svc : AllIdle /\ AsSingleton(i)
  \/ \E i \in Svc : AllIdle /\ AsTransient(i)
  \/ \E g \in Procs : \E name \in ConcNames : GoGetService(g, name)
  \/ \E g \in Procs : GoClean(g)
  \/ \E g \in Procs : \E ctor \in ConcCtors : GoAddService(g, ctor)
  \/ \E g \in Procs : RLock(g)
  \/ \E g \in Procs : MuLock(g)
  \/ \E g \in Procs : \E fail \in BOOLEAN : Ctor(g, fail)
  \/ \E g \in Procs : Announce(g)
  \/ \E g \in Procs : Acquire(g)

SpecConc == Init /\ [][NextConc]_vars

\* goroutines that call the first-generation Container
SpecV1 == Init /\ [][NextV1]_vars

\* goroutines that resolve descriptors whose constructors form a cycle
CycleNames == {NewService(c).name : c \in CycleCtors}

NextCycle ==
  \/ \E ctor \in CycleCtors : AllIdle /\ AddService(ctor)
  \/ \E g \in Procs : \E name \in CycleNames : GoGetService(g, name)
  \/ \E g \in Procs : GoClean(g)
  \/ \E g \in Procs : RLock(g)
  \/ \E g \in Procs : MuLock(g)
  \/ \E g \in Procs : Ctor(g, FALSE)
  \/ \E g \in Procs : Announce(g)
  \/ \E g \in Procs : Acquire(g)

SpecCycle == Init /\ [][NextCycle]_vars

\* goroutines whose calls fail: a name that no descriptor carries, a
\* constructor that returns an error, a constructor that NewService rejects
NextPanic ==
  \/ \E ctor \in ConcCtors : AllIdle /\ AddService(ctor)
  \/ \E i \in Svc : AllIdle /\ AsScoped(i)
  \/ AllIdle /\ CreateScope
  \/ \E g \in Procs : \E name \in ConcNames \cup {"MyService"} : GoGetService(g, name)
  \/ \E g \in Procs : GoGetServices(g, TA)
  \/ \E g \in Procs : \E sc \in 1..Len(scopes) : \E name \in ConcNames \cup {"MyService"} :
       GoScopeGetService(g, sc, name)
  \/ \E g \in Procs : GoAddService(g, retNone)
  \/ \E g \in Procs : GoClean(g)
  \/ \E g \in Procs : ScopeLock(g)
  \/ \E g \in Procs : ScopeInfo(g)
  \/ \E g \in Procs : RLock(g)
  \/ \E g \in Procs : MuLock(g)
  \/ \E g \in Procs : \E fail \in BOOLEAN : Ctor(g, fail)
  \/ \E g \in Procs : Announce(g)
  \/ \E g \in Procs : Acquire(g)

SpecPanic == Init /\ [][NextPanic]_vars

\* goroutines that share a Scope
NextShared ==
  \/ \E ctor \in ConcCtors : AllIdle /\ AddService(ctor)
  \/ \E i \in Svc : AllIdle /\ AsSingleton(i)
  \/ \E i \in Svc : AllIdle /\ AsScoped(i)
  \/ AllIdle /\ CreateScope
  \/ \E g \in Procs : \E sc \in 1..Len(scopes) : \E name \in Names :
       GoScopeGetService(g, sc, name)
  \/ \E g \in Procs : ScopeLock(g)
  \/ \E g \in Procs : ScopeInfo(g)
  \/ \E g \in Procs : RLock(g)
  \/ \E g \in Procs : MuLock(g)
  \/ \E g \in Procs : \E fail \in BOOLEAN : Ctor(g, fail)

SpecShared == Init /\ [][NextShared]_vars

\* ------------------------------------------------------------------ claims
\* the last call was a resolution by name, through the Container or a Scope
ByName(l) == l.op \in {"GetService", "Scope.GetService"}

\* the descriptor a call by name resolves: the first one that carries the name
Target(name) ==
  LET m == {i \in Svc : services[i].name = name} IN
  IF m = {} THEN 0 ELSE CHOOSE x \in m : \A y \in m : x <= y

\* an instance and every instance it was built with
RECURSIVE Reach(_)
Reach(v) == {v} \cup UNION {Reach(v.args[k]) : k \in 1..Len(v.args)}

\* C1: Singleton identity.  All resolutions of a Singleton descriptor made
\* since the last Clean (by name through the Container, by name through a
\* Scope, or as a constructor argument) returned one and the same instance,
\* and a call by name for the descriptor hands that instance to the caller.
C1_SingletonIdentity ==
  /\ \A i \in Svc : Cardinality(resolved[i]) <= 1
  /\ \A i \in Svc :
       (ByName(last) /\ last.ok /\ Target(last.name) = i
        /\ services[i].lifetime = LifetimeSingleton)
       => resolved[i] = {last.val}

\* C1 witness: a Scope call whose constructor took, as an argument, a
\* Singleton that an earlier Container call had built
C1_Witness ==
  /\ last.op = "Scope.GetService" /\ last.ok
  /\ \E k \in 1..Len(last.ev) :
       /\ last.ev[k].e = "build"
       /\ last.ev[k].lifetime = LifetimeSingleton
       /\ last.ev[k].inst.via = 0
       /\ last.ev[k].svc # Target(last.name)
       /\ last.ev[k].inst \in Range(last.val.args)

\* the instances of Scoped descriptor i made under Scope sc that a caller of
\* sc can observe: in the Scope's map, in the value the last call returned,
\* or inside one of those as a constructor argument
ScopedSeen(sc, i) ==
  {w \in UNION ({Reach(scopes[sc].services[t]) : t \in Types}
                \cup {IF ByName(last) /\ last.scope = sc THEN Reach(last.val) ELSE {}}) :
     w.svc = i /\ w.lt = LifetimeScoped /\ w.via = sc}

\* C2: within one Scope the constructor of a Scoped descriptor is invoked at
\* most once, for every order of the calls: every service resolved in the
\* Scope observes the one instance that Scope.GetService returns for it.
C2_ScopedBuiltOnce ==
  \A sc \in 1..Len(scopes) : \A i \in Svc : Cardinality(ScopedSeen(sc, i)) <= 1

\* C3: Scoped sharing.  A Scope.GetService call for a Scoped descriptor whose
\* type the Scope already holds returns the held instance; an entry of a
\* Scope's map never changes once set; a call on one Scope leaves the maps of
\* the other Scopes alone; the instance returned for a Scoped descriptor was
\* made by a constructor call of this very Scope, so that two Scopes never
\* return the same instance.
C3_Step ==
  /\ \A sc \in 1..Len(scopes) : \A t \in Types :
       scopes[sc].services[t] # Nil => scopes'[sc].services[t] = scopes[sc].services[t]
  /\ (last'.op = "Scope.GetService" /\ Len(scopes') = Len(scopes))
     => /\ \A sc \in 1..Len(scopes) : sc # last'.scope => scopes'[sc] = scopes[sc]
        /\ \A i \in Svc :
             (Target(last'.name) = i /\ services[i].lifetime = LifetimeScoped /\ last'.ok)
             => /\ scopes[last'.scope].services[services[i].typ] # Nil
                   => last'.val = scopes[last'.scope].services[services[i].typ]
                /\ scopes'[last'.scope].services[services[i].typ] = last'.val
                /\ last'.val.via = last'.scope

C3_Inv ==
  \A s1 \in 1..Len(scopes) : \A s2 \in 1..Len(scopes) : \A t \in Types :
    (s1 # s2 /\ scopes[s1].services[t] # Nil)
    => scopes[s1].services[t] # scopes[s2].services[t]

C3_ScopedSharing == [][C3_Step]_vars /\ []C3_Inv

\* C3 witness: a repeated call on one Scope returned the held instance while
\* another Scope holds an instance of the same descriptor
C3_Witness ==
  /\ last.op = "Scope.GetService" /\ last.ok
  /\ Len(last.ev) = 1 /\ last.ev[1].e = "hit"
  /\ \E sc \in 1..Len(scopes) :
       /\ sc # last.scope
       /\ scopes[sc].services[services[Target(last.name)].typ] # Nil

\* C4: Scoped dependency reuse.  When a Scope builds a Scoped descriptor, each
\* parameter whose type the Scope already holds is given the held instance;
\* when every parameter is held, no constructor but the descriptor's own is
\* invoked, so the constructor of the dependency has run once for the Scope.
C4_Step ==
  \A i \in Svc :
    (/\ last'.op = "Scope.GetService" /\ last'.ok
     /\ Target(last'.name) = i
     /\ services[i].lifetime = LifetimeScoped
     /\ scopes[last'.scope].services[services[i].typ] = Nil)
    => /\ \A k \in 1..Len(services[i].ctor.in) :
            scopes[last'.scope].services[services[i].ctor.in[k]] # Nil
            => last'.val.args[k] = scopes[last'.scope].services[services[i].ctor.in[k]]
       /\ (\A k \in 1..Len(services[i].ctor.in) :
             scopes[last'.scope].services[services[i].ctor.in[k]] # Nil)
          => \A j \in Svc : calls'[j] = IF j = i THEN calls[j] + 1 ELSE calls[j]

C4_ScopedDependencyReuse == [][C4_Step]_vars

\* C4 witness: B was built in a Scope with the instance of A that a direct
\* call had put in the Scope's map, and A's constructor has run once
C4_Witness ==
  /\ last.op = "Scope.GetService" /\ last.ok
  /\ Len(last.val.args) = 1
  /\ last.val.lt = LifetimeScoped
  /\ last.val.args[1].lt = LifetimeScoped
  /\ last.val.args[1] = scopes[last.scope].services[TA]
  /\ calls[last.val.args[1].svc] = 1

\* C5: Transient distinctness.  Every resolution of a Transient descriptor in
\* a call invokes the constructor: the instance is one that did not exist
\* before the call, no two resolutions of the call return the same instance,
\* and neither the descriptor nor a Scope's map keeps a Transient instance.
C5_Step ==
  /\ \A k \in 1..Len(last'.ev) :
       (last'.ev[k].e = "build" /\ last'.ev[k].lifetime = LifetimeTransient
        /\ Len(services') = Len(services))
       => /\ last'.ev[k].inst.n > calls[last'.ev[k].svc]
          /\ last'.ev[k].inst.svc = last'.ev[k].svc
          /\ k > 1 /\ last'.ev[k - 1].e = "ctor" /\ last'.ev[k - 1].inst = last'.ev[k].inst
          /\ \A j \in 1..Len(last'.ev) :
               (j # k /\ last'.ev[j].e = "build") => last'.ev[j].inst # last'.ev[k].inst
  /\ \A i \in 1..Len(services') :
       services'[i].lifetime = LifetimeTransient => services'[i].impl = Nil
  /\ \A sc \in 1..Len(scopes') : \A t \in Types :
       scopes'[sc].services[t].lt # LifetimeTransient \/ scopes'[sc].services[t] = Nil

C6_DisposeOnlyWhenCached ==
  last.op = "Clean" => \A k \in 1..Len(last.ev) : last.ev[k].inst # Nil

\* C7: after Clean the Container remains usable.  Clean changes nothing of
\* the descriptor list but the caches, which it empties; a GetService for a
\* Singleton with an empty cache that succeeds has invoked the constructor
\* once more, returns the instance of that call and caches it; a GetService
\* for a Singleton with a cached instance returns it and keeps it.
C7_Step ==
  /\ last'.op = "Clean"
     => /\ Len(services') = Len(services)
        /\ \A i \in Svc : services'[i] = [services[i] EXCEPT !.impl = Nil]
  /\ \A i \in Svc :
       (last'.op = "GetService" /\ last'.ok /\ Target(last'.name) = i
        /\ services[i].lifetime = LifetimeSingleton)
       => IF services[i].impl = Nil
          THEN /\ calls'[i] = calls[i] + 1
               /\ last'.val.svc = i /\ last'.val.n = calls'[i]
               /\ services'[i].impl = last'.val
          ELSE /\ last'.val = services[i].impl
               /\ services'[i].impl = services[i].impl
               /\ calls'[i] = calls[i]

C7_UsableAfterClean == [][C7_Step]_vars

\* C7 witness: a Singleton that was built, then emptied by Clean, has been
\* built anew by GetService and the new instance is cached
C7_Witness ==
  /\ last.op = "GetService" /\ last.ok
  /\ last.val.lt = LifetimeSingleton
  /\ last.val.n = 2
  /\ Len(last.ev) = 2
  /\ services[last.val.svc].impl = last.val
  /\ resolved[last.val.svc] = {last.val}

\* the built Singletons that have a disposer
Disposable == {i \in Svc : /\ services[i].dipsose
                           /\ services[i].impl # Nil
                           /\ services[i].lifetime = LifetimeSingleton}

\* C8: Clean(ctx) calls the disposer of each built Singleton that has one,
\* once, with ctx and the cached instance, in registration order, and leaves
\* every cache empty.
C8_Step ==
  last'.op = "Clean"
  => /\ \A i \in Disposable :
          Cardinality({k \in 1..Len(last'.ev) : last'.ev[k].svc = i}) = 1
     /\ \A k \in 1..Len(last'.ev) :
          /\ last'.ev[k].e = "dispose"
          /\ last'.ev[k].ctx = last'.ctx
          /\ last'.ev[k].inst = services[last'.ev[k].svc].impl
          /\ \A j \in 1..Len(last'.ev) : j < k => last'.ev[j].svc < last'.ev[k].svc
     /\ \A i \in 1..Len(services') : services'[i].impl = Nil

C8_CleanDisposes == [][C8_Step]_vars

\* C8 witness: a Clean with the second context disposed two built Singletons
C8_Witness ==
  /\ last.op = "Clean"
  /\ last.ctx # Background
  /\ Cardinality({k \in 1..Len(last.ev) : last.ev[k].inst # Nil}) >= 2

\* C9: GetService with a name that no descriptor carries panics, on the
\* Container and on a Scope; no constructor is invoked and no cache changes.
C9_Step ==
  (/\ last'.op \in {"GetService", "Scope.GetService"}
   /\ \A i \in Svc : services[i].name # last'.name)
  => /\ ~last'.ok
     /\ last'.val = Nil
     /\ last'.msg = <<"container: could not find service", last'.name>>
     /\ last'.ev = <<>>
     /\ UNCHANGED <<services, scopes, calls>>

C9_NotFoundPanics == [][C9_Step]_vars

\* C9 witness: a Scope call for an unregistered name panicked while the
\* Container holds a built Singleton and the Scope a Scoped instance
C9_Witness ==
  /\ last.op = "Scope.GetService" /\ ~last.ok
  /\ \A i \in Svc : services[i].name # last.name
  /\ \E i \in Svc : services[i].impl # Nil
  /\ \E t \in Types : scopes[last.scope].services[t] # Nil

\* the message of a panic for a build that failed along the descriptors p
RECURSIVE Chain(_)
Chain(p) ==
  IF p = <<>> THEN <<>>
  ELSE <<"container: failed to build", services[Head(p)].name>> \o Chain(Tail(p))

\* C10: when the build of the requested service fails, GetService (Container
\* and Scope) panics and returns nothing; the message names, from the
\* requested service down, every descriptor on the failing dependency path
\* and ends with the cause: the constructor's error or the unresolved type.
C10_BuildFailurePanics ==
  (ByName(last) /\ Target(last.name) # 0)
  => /\ last.ok <=> last.path = <<>>
     /\ ~last.ok
        => /\ last.val = Nil
           /\ last.path[1] = Target(last.name)
           /\ last.name \in Range(last.msg)
           /\ \E cause \in {<<AnError>>} \cup
                           {<<"container: failed to resolve", TypeName(t)>> : t \in Types} :
                last.msg = Chain(last.path) \o cause

\* C10 witness: a Scope call failed three descriptors deep, in a constructor
C10_Witness ==
  /\ last.op = "Scope.GetService" /\ ~last.ok
  /\ Len(last.path) = 3
  /\ last.msg[Len(last.msg)] = AnError

\* the descriptors that produce type t, in registration order
OfType(t) == SelectSeq([k \in Svc |-> k], LAMBDA k : services[k].typ = t)

\* the causes a failed build can end with
Causes ==
  {<<AnError>>} \cup {<<"container: failed to resolve", TypeName(t)>> : t \in Types}

\* C11: GetServices(t) returns one instance per descriptor of type t, in
\* registration order, each built by its lifetime: a cached Singleton is
\* reused, anything else is built by a constructor call of this call (and a
\* Singleton is cached then).  With no descriptor of the type it returns the
\* empty sequence and changes nothing.  It panics when the build of a match
\* fails, naming the failing path from that match down.
C11_Step ==
  last'.op = "GetServices"
  => LET M == OfType(last'.name) IN
     /\ last'.ok <=> last'.path = <<>>
     /\ (\E k \in 1..Len(last'.ev) : last'.ev[k].e = "ctor" /\ last'.ev[k].inst = Nil)
        => ~last'.ok
     /\ M = <<>>
        => last'.ok /\ last'.vals = <<>> /\ last'.ev = <<>>
           /\ UNCHANGED <<services, calls>>
     /\ last'.ok
        => /\ Len(last'.vals) = Len(M)
           /\ \A k \in 1..Len(M) :
                LET i == M[k]
                    v == last'.vals[k]
                IN /\ v.svc = i
                   /\ IF services[i].lifetime = LifetimeSingleton
                      THEN /\ services'[i].impl = v
                           /\ IF services[i].impl # Nil
                              THEN v = services[i].impl /\ calls'[i] = calls[i]
                              ELSE v.n = calls'[i] /\ calls'[i] = calls[i] + 1
                      ELSE /\ v.n > calls[i]
                           /\ services'[i].impl = Nil
     /\ ~last'.ok
        => /\ last'.vals = <<>>
           /\ last'.path[1] \in Range(M)
           /\ \E cause \in Causes : last'.msg = Chain(last'.path) \o cause

C11_GetServicesAll == [][C11_Step]_vars

\* C11 witness: GetServices returned two instances of one type, the first a
\* cached Singleton that was reused, the second a Transient built by the call
C11_Witness ==
  /\ last.op = "GetServices" /\ last.ok
  /\ Len(last.vals) = 2
  /\ last.vals[1].lt = LifetimeSingleton
  /\ last.vals[2].lt = LifetimeTransient
  /\ Len(last.ev) = 3
  /\ last.ev[1].e = "build"

\* a constructor of the shape NewService documents: a function that returns
\* a value that is no error, or such a value and an error
ValidShape(ctor) ==
  /\ Kind(ctor) = "func"
  /\ Len(Outs(ctor)) \in {1, 2}
  /\ Outs(ctor)[1] # ErrorT
  /\ Len(Outs(ctor)) = 2 => Outs(ctor)[2] = ErrorT

\* C12: AddService with a value that is not a function, or a function with
\* no return value, more than two, an error as the first, or a second that
\* is no error, panics at registration: nothing is appended and nothing else
\* changes, so the Container serves later calls as before.  A descriptor is
\* appended only for a constructor of valid shape.
C12_Step ==
  last'.op = "AddService"
  => /\ last'.name \in {c.id : c \in InvalidCtors}
        => /\ ~last'.ok
           /\ last'.msg # <<>>
           /\ UNCHANGED <<services, scopes, calls, resolved>>
     /\ IF last'.ok
        THEN /\ Len(services') = Len(services) + 1
             /\ ValidShape(services'[Len(services')].ctor)
             /\ \A i \in Svc : services'[i] = services[i]
        ELSE services' = services

C12_InvalidCtorRejected == [][C12_Step]_vars

\* C12 witness: a function with two return values, neither an error, was
\* rejected by a Container that holds two descriptors
C12_Witness ==
  /\ last.op = "AddService" /\ ~last.ok
  /\ last.name = retTwoValues.id
  /\ Len(services) = 2

\* the descriptor that resolves a parameter of type t through the Container:
\* the first one that produces it, 0 when there is none
Provider(t) ==
  LET m == {i \in Svc : services[i].typ = t} IN
  IF m = {} THEN 0 ELSE CHOOSE x \in m : \A y \in m : x <= y

\* C13: composition of lifetimes.  A successful resolution by name of a
\* Transient descriptor invokes its constructor once more and returns that
\* call's instance; each parameter that a Singleton descriptor provides is
\* given the Singleton's cached instance: the one cached before the call,
\* with no further call of the Singleton's constructor, or, when the cache
\* was empty, the one this call built with one constructor call.
C13_Step ==
  \A i \in Svc :
    (/\ ByName(last') /\ last'.ok /\ Len(services') = Len(services)
     /\ Target(last'.name) = i
     /\ services[i].lifetime = LifetimeTransient)
    => /\ calls'[i] = calls[i] + 1
       /\ last'.val.svc = i /\ last'.val.n = calls'[i]
       /\ \A k \in 1..Len(services[i].ctor.in) :
            LET j == Provider(services[i].ctor.in[k]) IN
            (j # 0 /\ services[j].lifetime = LifetimeSingleton)
            => /\ last'.val.args[k] = services'[j].impl
               /\ last'.val.args[k].svc = j
               /\ IF services[j].impl # Nil
                  THEN services'[j].impl = services[j].impl /\ calls'[j] = calls[j]
                  ELSE calls'[j] = calls[j] + 1

C13_SingletonInTransient == [][C13_Step]_vars

\* C13 witness: the second resolution of the Transient B returned the second
\* instance of B, built with the one instance of the Singleton A, whose
\* constructor has been called once
C13_Witness ==
  /\ last.op = "GetService" /\ last.ok
  /\ last.val.lt = LifetimeTransient /\ last.val.n = 2
  /\ Len(last.val.args) = 1
  /\ last.val.args[1].lt = LifetimeSingleton
  /\ last.val.args[1] = services[last.val.args[1].svc].impl
  /\ calls[last.val.args[1].svc] = 1
  /\ Len(last.ev) = 3

\* C14: ambient context propagation.  Every constructor call made while a
\* Scope.GetService call is served passes the Scope's bound context for each
\* parameter of the context type, whatever the lifetime of the descriptor
\* and whether it is the requested one or a dependency.
C14_ContextPropagated ==
  last.op = "Scope.GetService"
  => \A k \in 1..Len(last.ev) :
       (last.ev[k].e = "ctor" /\ last.ev[k].inst # Nil)
       => \A p \in 1..Len(services[last.ev[k].svc].ctor.in) :
            services[last.ev[k].svc].ctor.in[p] = CtxString
            => last.ev[k].inst.args[p] = scopes[last.scope].ctx

\* C15: when Scope.GetService builds a Scoped descriptor, each parameter of
\* the context type is given the Scope's bound context, whether or not a
\* descriptor of the Container produces the context type; when the
\* constructor has no other parameter, no constructor but the descriptor's
\* own is invoked.
C15_Step ==
  \A i \in Svc :
    (/\ last'.op = "Scope.GetService" /\ last'.ok /\ Len(scopes') = Len(scopes)
     /\ Target(last'.name) = i
     /\ services[i].lifetime = LifetimeScoped
     /\ scopes[last'.scope].services[services[i].typ] = Nil)
    => /\ \A k \in 1..Len(services[i].ctor.in) :
            services[i].ctor.in[k] = CtxString
            => last'.val.args[k] = scopes[last'.scope].ctx
       /\ (\A k \in 1..Len(services[i].ctor.in) : services[i].ctor.in[k] = CtxString)
          => \A j \in Svc : calls'[j] = IF j = i THEN calls[j] + 1 ELSE calls[j]

C15_ScopeContextDirect == [][C15_Step]_vars

\* C15 witness: a Scope bound to the second context built a Scoped descriptor
\* with that context while the Container holds a descriptor that produces the
\* context type, whose constructor has never been called
C15_Witness ==
  /\ last.op = "Scope.GetService" /\ last.ok
  /\ last.val.lt = LifetimeScoped
  /\ last.val.args = <<scopes[last.scope].ctx>>
  /\ scopes[last.scope].ctx # Background
  /\ \E j \in Svc : services[j].typ = CtxString /\ calls[j] = 0

\* a goroutine whose next step is the acquisition of a lock that it cannot
\* take now
LockBlocked(g) ==
  /\ Running(g)
  /\ \/ Top(g).pc = "rlock" /\ WriterPending
     \/ Top(g).kind = "build" /\ Top(g).pc = "lock" /\ MuHeld(Top(g).svc)
     \/ Top(g).pc = "lock" /\ Top(g).kind \in {"Clean", "AddService"} /\ WriterPending
     \/ Top(g).pc = "pending" /\ ReadersHeld

\* C16: deadlock freedom.  With an acyclic dependency graph there is no
\* state in which calls are under way and every one of them waits for a lock
\* (none of them can go on, so none of the locks is ever released).
C16_NoDeadlock ==
  ~(/\ \E g \in Procs : Running(g)
    /\ \A g \in Procs : Running(g) => LockBlocked(g))

\* the builds of descriptor i that are in flight: the build frames past Lock
InFlight(i) ==
  UNION {{<<g, n>> : n \in {m \in 1..Len(procs[g].stack) :
                                 /\ procs[g].stack[m].kind = "build"
                                 /\ procs[g].stack[m].svc = i
                                 /\ procs[g].stack[m].pc = "run"}} : g \in Procs}

\* C17: per-descriptor build exclusion.  No descriptor has two builds in
\* flight, and all resolutions of a Singleton since the last Clean, by
\* whatever goroutine, have returned one instance: its constructor has
\* succeeded once.
C17_BuildExclusion ==
  \A i \in Svc :
    /\ Cardinality(InFlight(i)) <= 1
    /\ Cardinality(resolved[i]) <= 1

\* C17 witness: two goroutines resolved one Singleton concurrently: one of
\* them found the build lock held; both have the same instance and the
\* constructor has been called once
C17_Witness ==
  /\ \A g \in Procs : procs[g].status = "done" /\ procs[g].ok
  /\ \E g \in Procs : procs[g].contended
  /\ \A g \in Procs : procs[g].val = procs[1].val
  /\ procs[1].val.lt = LifetimeSingleton
  /\ calls[procs[1].val.svc] = 1
  /\ resolved[procs[1].val.svc] = {procs[1].val}

\* the ways a message can name a type: its String(), the String() of what a
\* pointer points to, or its Name(), when not empty
TypeNames(t) == {TypeString(t), ElemString(t), TypeName(t)} \ {""}

\* C18: fail-fast on a missing dependency.  When a call by name fails because
\* no descriptor produces the type of a parameter, the message of the panic
\* ends with a name of that type.
C18_MissingTypeNamed ==
  (/\ ByName(last) /\ ~last.ok
   /\ Len(last.msg) >= 2
   /\ last.msg[Len(last.msg) - 1] = "container: failed to resolve")
  => \E t \in Range(services[last.path[Len(last.path)]].ctor.in) :
       /\ Provider(t) = 0
       /\ last.msg[Len(last.msg)] \in TypeNames(t)

\* the parameters of descriptor i whose resolution through the Container
\* fails in a call that failed along path p: no descriptor produces the
\* type, or the one that does is the next on the path
FailedArgs(i, p) ==
  {k \in 1..Len(services[i].ctor.in) :
     \/ Provider(services[i].ctor.in[k]) = 0
     \/ Len(p) >= 2 /\ Provider(services[i].ctor.in[k]) = p[2]}

\* C19: build stops at the first parameter that fails.  A constructor that
\* returns an error is the last thing a call does, and the call fails.  When
\* Container.GetService fails in a parameter of the requested descriptor,
\* the descriptor's own constructor is not called, no descriptor that only
\* a later parameter needs is built, and the panic carries the failure of
\* that parameter: the missing type, or the failure of its descriptor.
C19_Step ==
  /\ \A k \in 1..Len(last'.ev) :
       (last'.ev[k].e = "ctor" /\ last'.ev[k].inst = Nil)
       => k = Len(last'.ev) /\ ~last'.ok
  /\ \A i \in Svc :
       (/\ last'.op = "GetService" /\ ~last'.ok
        /\ Target(last'.name) = i
        /\ FailedArgs(i, last'.path) # {})
       => LET k == CHOOSE x \in FailedArgs(i, last'.path) :
                     \A y \in FailedArgs(i, last'.path) : x <= y
              t == services[i].ctor.in[k]
          IN /\ calls'[i] = calls[i]
             /\ services'[i].impl = services[i].impl
             /\ \A n \in (k + 1)..Len(services[i].ctor.in) :
                  LET j == Provider(services[i].ctor.in[n]) IN
                  (j # 0 /\ \A m \in 1..k : Provider(services[i].ctor.in[m]) # j)
                  => /\ calls'[j] = calls[j]
                     /\ \A e \in 1..Len(last'.ev) : last'.ev[e].svc # j
             /\ IF Provider(t) = 0
                THEN last'.msg = <<"container: failed to build", services[i].name,
                                  "container: failed to resolve", TypeName(t)>>
                ELSE /\ last'.path[2] = Provider(t)
                     /\ \E cause \in Causes : last'.msg = Chain(last'.path) \o cause

C19_StopsAtFirstFailure == [][C19_Step]_vars

\* C19 witness: GetService for a descriptor with two parameters failed in
\* the constructor of the first one; the descriptor of the second is
\* registered and its constructor has never been called
C19_Witness ==
  /\ last.op = "GetService" /\ ~last.ok
  /\ Len(last.path) = 2
  /\ Len(services[last.path[1]].ctor.in) = 2
  /\ last.msg[Len(last.msg)] = AnError
  /\ Provider(services[last.path[1]].ctor.in[2]) # 0
  /\ calls[Provider(services[last.path[1]].ctor.in[2])] = 0
  /\ calls[last.path[1]] = 0

\* C20: a failed build leaves the cache as it was.  The cache of a
\* descriptor changes only from empty to the instance of a constructor call
\* that succeeded in this step; after a failed call every descriptor on the
\* failing path has the cache it had; a later successful GetService of a
\* Singleton with an empty cache calls the constructor again, returns that
\* call's instance and caches it.
C20_Step ==
  Len(services') = Len(services)
  => /\ \A i \in Svc :
          services'[i].impl # services[i].impl
          => /\ services[i].impl = Nil
             /\ services'[i].impl.svc = i
             /\ services'[i].impl.n > calls[i]
             /\ \E k \in 1..Len(last'.ev) :
                  last'.ev[k].e = "ctor" /\ last'.ev[k].inst = services'[i].impl
     /\ ~last'.ok
        => \A k \in 1..Len(last'.path) :
             services'[last'.path[k]].impl = services[last'.path[k]].impl
     /\ \A i \in Svc :
          (/\ last'.op = "GetService" /\ last'.ok /\ Target(last'.name) = i
           /\ services[i].lifetime = LifetimeSingleton /\ services[i].impl = Nil)
          => /\ calls'[i] = calls[i] + 1
             /\ last'.val.n = calls'[i]
             /\ services'[i].impl = last'.val

C20_FailedBuildNotCached == [][C20_Step]_vars

\* C20 witness: where Clean is never called, GetService returned and cached
\* the instance of the second call of a Singleton's constructor: the first
\* call had failed and had cached nothing
C20_Witness ==
  /\ last.op = "GetService" /\ last.ok
  /\ last.val.lt = LifetimeSingleton
  /\ last.val.n = 2
  /\ services[last.val.svc].impl = last.val
  /\ resolved[last.val.svc] = {last.val}

\* C21: a cached Singleton is returned as it is.  A call by name for a
\* Singleton descriptor that holds an instance succeeds and returns that
\* instance; the call makes one event, the return of build: no constructor
\* is called, no dependency is resolved and no cache changes.
C21_Step ==
  \A i \in Svc :
    (/\ ByName(last') /\ Target(last'.name) = i
     /\ Len(services') = Len(services)
     /\ services[i].lifetime = LifetimeSingleton
     /\ services[i].impl # Nil)
    => /\ last'.ok
       /\ last'.val = services[i].impl
       /\ last'.ev = <<Event("build", i, services[i].impl, LifetimeSingleton, Nil)>>
       /\ calls' = calls
       /\ services' = services
       /\ scopes' = scopes

\* C21: the call succeeds whichever constructors would fail in it: the
\* outcome of Container.GetService for a cached Singleton is the cached
\* instance for every set of failing constructors
C21_Inv ==
  \A name \in Names : \A bad \in Bads :
    LET i == Target(name) IN
    (i # 0 /\ services[i].lifetime = LifetimeSingleton /\ services[i].impl # Nil)
    => \E r \in {CtnGetService(name, [via |-> 0, bad |-> bad])} :
         /\ r.ok /\ ~r.blocked
         /\ r.val = services[i].impl
         /\ r.st.calls = calls

C21_CachedSingletonReturned == [][C21_Step]_vars /\ []C21_Inv

\* C21 witness: a call returned the cached instance of a Singleton whose
\* constructor takes a Transient with an error return, which a build would
\* have had to construct anew
C21_Witness ==
  /\ ByName(last) /\ last.ok
  /\ last.val # Nil
  /\ last.val.lt = LifetimeSingleton
  /\ last.ev = <<Event("build", last.val.svc, last.val, LifetimeSingleton, Nil)>>
  /\ \E k \in 1..Len(last.val.args) :
       /\ last.val.args[k].lt = LifetimeTransient
       /\ services[last.val.args[k].svc].ctor.err
       /\ services[last.val.args[k].svc].lifetime = LifetimeTransient

\* C22: the lifetime setters change only the lifetime.  A setter leaves the
\* cached instance, the name, the call counts and the Scopes as they are; a
\* call by name for a descriptor that holds an instance under a lifetime
\* other than Singleton leaves the cached instance in place and, when it
\* succeeds, returns another instance; once the lifetime is Singleton again,
\* a call by name returns the cached instance without a constructor call.
C22_Step ==
  /\ last'.op = "SetLifetime"
     => /\ \A i \in Svc :
             services'[i] = [services[i] EXCEPT !.lifetime = services'[i].lifetime]
        /\ calls' = calls /\ scopes' = scopes
  /\ \A i \in Svc :
       (/\ ByName(last') /\ Target(last'.name) = i
        /\ services[i].impl # Nil)
       => /\ services'[i].impl = services[i].impl
          /\ IF services[i].lifetime = LifetimeSingleton
             THEN /\ last'.ok /\ last'.val = services[i].impl
                  /\ calls' = calls
             ELSE last'.ok => /\ last'.val # services[i].impl
                              /\ last'.val.svc = i
                              /\ last'.val.lt = services[i].lifetime

C22_SettersKeepCache == [][C22_Step]_vars

\* C22 witness: a descriptor was built as a Singleton, built again under
\* another lifetime, made a Singleton again, and the call by name returned
\* the instance of the first build
C22_Witness ==
  /\ ByName(last) /\ last.ok
  /\ last.val # Nil
  /\ last.val.lt = LifetimeSingleton
  /\ last.val.n = 1
  /\ calls[last.val.svc] >= 2
  /\ services[last.val.svc].impl = last.val
  /\ services[last.val.svc].lifetime = LifetimeSingleton
  /\ last.ev = <<Event("build", last.val.svc, last.val, LifetimeSingleton, Nil)>>

\* C23: first match in registration order.  The instance that a call by
\* name built and returned was built by the earliest descriptor that carries
\* the name, and every argument of a constructor call of the last call is
\* the product of the earliest descriptor that produces the parameter's type.
C23_FirstMatch ==
  /\ (/\ ByName(last) /\ last.ok
      /\ last.ev # <<>>
      /\ last.ev[Len(last.ev)].e = "build")
     => last.ev[Len(last.ev)].svc = Target(last.name)
  /\ \A k \in 1..Len(last.ev) :
       (last.ev[k].e = "ctor" /\ last.ev[k].inst # Nil)
       => \A n \in 1..Len(last.ev[k].inst.args) :
            last.ev[k].inst.args[n].svc
              = Provider(services[last.ev[k].svc].ctor.in[n])

\* C24: a Scope intercepts only Scoped descriptors.  Scope.GetService for a
\* descriptor that is not Scoped has the outcome of Container.GetService in
\* the same state and leaves the Scope's map as it is; a Scope's map changes
\* only when Scope.GetService built a Scoped descriptor, by the entry of
\* that descriptor's type.
C24_Step ==
  /\ \A i \in Svc :
       (/\ last'.op = "Scope.GetService" /\ Target(last'.name) = i
        /\ services[i].lifetime # LifetimeScoped)
       => /\ scopes' = scopes
          /\ \E bad \in Bads :
               \E r \in {CtnGetService(last'.name, [via |-> last'.scope, bad |-> bad])} :
                 /\ last'.ok = r.ok /\ last'.val = r.val /\ last'.msg = r.msg
                 /\ calls' = r.st.calls
                 /\ \A j \in Svc : services'[j].impl = r.st.impl[j]
  /\ \A sc \in 1..Len(scopes) : \A t \in Types :
       scopes'[sc].services[t] # scopes[sc].services[t]
       => /\ last'.op = "Scope.GetService" /\ last'.scope = sc /\ last'.ok
          /\ Target(last'.name) # 0
          /\ services[Target(last'.name)].lifetime = LifetimeScoped
          /\ services[Target(last'.name)].typ = t
          /\ scopes[sc].services[t] = Nil
          /\ scopes'[sc].services[t] = last'.val

\* C24: every entry of a Scope's map is under the type of the descriptor
\* that built it, and was built through that Scope under the Scoped lifetime
C24_Inv ==
  \A sc \in 1..Len(scopes) : \A t \in Types :
    scopes[sc].services[t] # Nil
    => /\ scopes[sc].services[t].svc \in Svc
       /\ services[scopes[sc].services[t].svc].typ = t
       /\ scopes[sc].services[t].via = sc
       /\ scopes[sc].services[t].lt = LifetimeScoped

C24_ScopeInterceptsScoped == [][C24_Step]_vars /\ []C24_Inv

\* C24 witness: a Scope that holds an instance returned an instance of a
\* descriptor that is not Scoped, and holds nothing of that type
C24_Witness ==
  /\ last.op = "Scope.GetService" /\ last.ok
  /\ last.val # Nil
  /\ last.val.lt # LifetimeScoped
  /\ scopes[last.scope].services[services[last.val.svc].typ] = Nil
  /\ \E t \in Types : scopes[last.scope].services[t] # Nil

\* a goroutine waits for the build lock of a descriptor that a lower frame
\* of its own stack holds
SelfWait(g, i) ==
  /\ Running(g)
  /\ Top(g).kind = "build" /\ Top(g).pc = "lock" /\ Top(g).svc = i
  /\ \E n \in 1..(Len(procs[g].stack) - 1) :
       /\ procs[g].stack[n].kind = "build"
       /\ procs[g].stack[n].pc = "run"
       /\ procs[g].stack[n].svc = i

\* a descriptor whose constructor requires the type it produces
SelfReferential(i) == services[i].typ \in Range(services[i].ctor.in)

\* C25: a self-referential descriptor never completes resolution.  A
\* goroutine whose call by name resolves such a descriptor stays in the
\* call; once its nested build of the descriptor waits for the build lock
\* that its own outer build holds, the goroutine never takes another step
\* and the lock stays held; the descriptor's constructor is never called.
C25_Step ==
  \A g \in Procs :
    /\ (/\ Running(g)
        /\ procs[g].stack[1].kind = "GetService"
        /\ Target(procs[g].stack[1].x) # 0
        /\ SelfReferential(Target(procs[g].stack[1].x)))
       => /\ procs'[g].status = "run"
          /\ procs'[g].stack # <<>>
          /\ procs'[g].stack[1] \in {procs[g].stack[1],
                                     [procs[g].stack[1] EXCEPT !.pc = "held",
                                        !.svc = Target(procs[g].stack[1].x)]}
    /\ \A i \in Svc :
         (SelfWait(g, i) /\ SelfReferential(i))
         => /\ procs'[g] = procs[g]
            /\ calls'[i] = 0

C25_SelfCycleBlocks == [][C25_Step]_vars

\* C25 witness: a call by name for a self-referential descriptor waits for
\* the descriptor's build lock, which the same call holds
C25_Witness ==
  \E g \in Procs : \E i \in Svc :
    /\ SelfWait(g, i) /\ SelfReferential(i)
    /\ procs[g].stack[1].kind = "GetService"
    /\ Target(procs[g].stack[1].x) = i

\* C26: a cycle over several descriptors does not block on a build lock.
\* A goroutine waits for a build lock that its own call holds only when the
\* descriptor is self-referential.
C26_OnlySelfCycleBlocks ==
  \A g \in Procs : \A i \in Svc :
    SelfWait(g, i) => SelfReferential(i)

\* the goroutines whose Scope.GetService call of Scope sc is past the lock
PastScopeLock(sc) ==
  {g \in Procs : ScopeOf(g) = sc /\ procs[g].stack[1].pc # "lock"}

\* the goroutines that were handed, by Scope.GetService of Scope sc, an
\* instance of descriptor i built as Scoped
Handed(sc, i) ==
  {g \in Procs : /\ procs[g].status = "done" /\ procs[g].ok
                 /\ procs[g].val.svc = i
                 /\ procs[g].val.via = sc
                 /\ procs[g].val.lt = LifetimeScoped}

\* C27: operations on one Scope serialize.  At most one Scope.GetService
\* call of a Scope is past the Scope's lock; all calls that were handed a
\* Scoped instance of a descriptor by the Scope were handed the instance
\* that the Scope's map holds.
C27_Inv ==
  /\ \A sc \in 1..Len(scopes) : Cardinality(PastScopeLock(sc)) <= 1
  /\ \A sc \in 1..Len(scopes) : \A i \in Svc : \A g \in Handed(sc, i) :
       procs[g].val = scopes[sc].services[services[i].typ]

\* C27: an entry of a Scope's map is written once, by the call that is past
\* the lock, and the constructor call that Scope.GetService makes for the
\* descriptor it was asked for is made only while the map has no entry of
\* the type, and fills it.
C27_Step ==
  /\ \A sc \in 1..Len(scopes) : \A t \in Types :
       scopes'[sc].services[t] # scopes[sc].services[t]
       => /\ scopes[sc].services[t] = Nil
          /\ \E g \in PastScopeLock(sc) :
               /\ procs'[g].status = "done"
               /\ procs'[g].val = scopes'[sc].services[t]
  /\ \A g \in Procs : \A i \in Svc :
       (/\ ScopeOf(g) # 0
        /\ Len(procs[g].stack) = 2
        /\ procs[g].stack[1].pc = "build"
        /\ calls'[i] # calls[i])
       => /\ scopes[ScopeOf(g)].services[services[i].typ] = Nil
          /\ procs'[g].ok => scopes'[ScopeOf(g)].services[services[i].typ] = procs'[g].val

C27_ScopeSerializes == [][C27_Step]_vars /\ []C27_Inv

\* C27 witness: two goroutines asked one Scope for a Scoped descriptor, one
\* of them while the other held the Scope's lock, and both were handed the
\* instance of the one constructor call
C27_Witness ==
  \E g, h \in Procs : \E sc \in 1..Len(scopes) : \E i \in Svc :
    /\ g # h
    /\ g \in Handed(sc, i) /\ h \in Handed(sc, i)
    /\ procs[h].contended
    /\ procs[g].val = procs[h].val
    /\ calls[i] = 1

\* C28: the Scope's instance is the one every service resolved through the
\* Scope sees.  When Scope.GetService builds a Singleton or Transient
\* descriptor, each argument that a Scoped descriptor produced, and of whose
\* type the Scope holds an instance, is the instance the Scope holds: the
\* one that Scope.GetService returns for that descriptor in the Scope.
C28_ScopeInstanceSeen ==
  (/\ last.op = "Scope.GetService" /\ last.ok
   /\ last.val # Nil
   /\ last.val.lt # LifetimeScoped
   /\ \E k \in 1..Len(last.ev) : last.ev[k].e = "ctor" /\ last.ev[k].inst = last.val)
  => \A n \in 1..Len(last.val.args) :
       LET a == last.val.args[n] IN
       (/\ a.svc \in Svc
        /\ services[a.svc].lifetime = LifetimeScoped
        /\ scopes[last.scope].services[services[a.svc].typ] # Nil)
       => a = scopes[last.scope].services[services[a.svc].typ]

\* C29: Scope.GetService returns the product of the descriptor it was asked
\* for.  The instance that a successful Scope.GetService call returns for a
\* Scoped descriptor was made by the constructor of the earliest descriptor
\* that carries the name.
C29_ScopedByName ==
  \A i \in Svc :
    (/\ last.op = "Scope.GetService" /\ last.ok
     /\ Target(last.name) = i
     /\ services[i].lifetime = LifetimeScoped)
    => last.val.svc = i

\* the frames of goroutine g that hold a lock: the Container's read lock, a
\* descriptor's build lock, or a Scope's lock
Holding(g) ==
  {n \in 1..Len(procs[g].stack) :
     \/ /\ procs[g].stack[n].kind \in {"GetService", "getService", "GetServices"}
        /\ procs[g].stack[n].pc = "held"
     \/ procs[g].stack[n].kind = "build" /\ procs[g].stack[n].pc = "run"
     \/ /\ procs[g].stack[n].kind = "Scope.GetService"
        /\ procs[g].stack[n].pc # "lock"}

\* goroutine g waits for a lock that is not free
Waiting(g) ==
  /\ Running(g)
  /\ \/ LockBlocked(g)
     \/ /\ Top(g).kind = "Scope.GetService"
        /\ \/ Top(g).pc = "lock" /\ ScopeMuHeld(Top(g).x[1])
           \/ Top(g).pc = "info" /\ WriterPending

\* C30: no lock outlives a failed call.  A goroutine whose call has ended,
\* in a panic or not, holds no lock; a call that is under way while every
\* other call has ended never waits for a lock.
C30_LocksReleased ==
  /\ \A g \in Procs : procs[g].status = "done" => Holding(g) = {}
  /\ \A g \in Procs :
       (Running(g) /\ \A h \in Procs \ {g} : ~Running(h)) => ~Waiting(g)

\* C30 witness: a call ended in a panic because a constructor returned an
\* error, and another goroutine now holds the build lock of that
\* constructor's descriptor, under the Container's read lock
C30_Witness ==
  \E g, h \in Procs : \E i \in Svc :
    /\ procs[g].status = "done" /\ ~procs[g].ok
    /\ Len(procs[g].msg) >= 3
    /\ procs[g].msg[Len(procs[g].msg)] = AnError
    /\ procs[g].msg[Len(procs[g].msg) - 1] = services[i].name
    /\ Running(h)
    /\ \E n \in Holding(h) :
         procs[h].stack[n].kind = "build" /\ procs[h].stack[n].svc = i
    /\ \E n \in Holding(h) : procs[h].stack[n].kind # "build"

\* C31: a nested GetService of the first-generation Container does not
\* block.  No GetService call that a BuildFunc made waits for the
\* Container's mutex while the GetService call that runs the BuildFunc, in
\* the same goroutine, holds it.
C31_NestedGetServiceProceeds ==
  \A g \in Procs :
    ~(/\ Running(g)
      /\ Len(procs[g].stack) >= 2
      /\ Top(g).kind = "v1.GetService" /\ Top(g).pc = "lock"
      /\ \E n \in 1..(Len(procs[g].stack) - 1) :
           /\ procs[g].stack[n].kind = "v1.GetService"
           /\ procs[g].stack[n].pc = "build")

====
